---- MODULE Spec2Model ----
(***************************************************************************)
(* The request handlers of src/server.js as a state machine: the bearer    *)
(* gate (isAuthenticated), the ingest pipeline (/nylas/read-emails), the   *)
(* pass-through gateway reads (/nylas/message, /nylas/file), the reply     *)
(* generation pipeline (/nylas/read-email-gpt) and the reply listing       *)
(* (/nylas/read-replies), over the two mongoose collections Email          *)
(* (src/models/emails.js) and Reply (src/unnamed/part_000).                *)
(*                                                                         *)
(* Node runs the handlers on one thread: a handler runs without            *)
(* interruption from one await to the next, so one action is the code      *)
(* between two awaits, and the settlement of each awaited call (gateway,   *)
(* store, completion engine) is an action of its own.                      *)
(***************************************************************************)
EXTENDS Integers, Sequences, FiniteSets, Bags, TLC

\* ------------------------------------------------------------- bounds
\* Requests that arrive in one run of the server.
NumReqs == 2
\* Threads the gateway returns to one listing (the code asks for at most 5).
MaxThreads == 2
\* Documents in the Email collection when the server starts.
MaxStored == 1

Reqs == 1..NumReqs

\* ------------------------------------------------------------- values
Mailboxes == {"a@x.com", "b@x.com"}

\* The id the credential store gives the user of a mailbox.
UserIdOf(m) == IF m = "a@x.com" THEN "A" ELSE "B"

NoHeader == ""
Headers == {NoHeader, "A", "B", "Z"}

NoUser == [id |-> "", emailAddress |-> ""]

Ops == {"read-emails", "message", "file", "read-email-gpt", "read-replies"}

\* The threads a mailbox can hold. `from` is messages[0].from; the third
\* thread has no sender, so reading from[0].email throws.
Threads ==
  { [subject |-> "s1", snippet |-> "n1", from |-> <<"f1">>],
    [subject |-> "s1", snippet |-> "n2", from |-> <<"f1">>],
    [subject |-> "s2", snippet |-> "n1", from |-> <<>>] }

\* Texts the completion engine can return.
Texts == {"Draft reply", "Other reply"}

SeqsUpTo(S, n) == UNION { [1..k -> S] : k \in 0..n }

NoBody == [kind |-> "none", data |-> <<>>]

VARIABLES
  users,    \* credential store: the stored users
  emails,   \* Email collection, in insertion order
  replies,  \* Reply collection, in insertion order
  pc,       \* where each request is
  op,       \* the route of each request
  auth,     \* req.headers.authorization of each request
  user,     \* res.locals.user of each request
  threads,  \* the threads the listing returned to each ingest request
  ins,      \* the state of each per-thread insert attempt of an ingest request
  seen,     \* Len(emails) when the request's store work started
  units,    \* the per-record units of a generate-replies request
  status,   \* HTTP status sent to the caller, 0 while no response was sent
  body,     \* the response body sent to the caller
  ret,      \* the value the route handler returned to express (discarded)
  calls,    \* external calls issued: <<request, call>>
  crashed   \* the node process was terminated by an unhandled rejection

vars == <<users, emails, replies, pc, op, auth, user, threads, ins, seen,
          units, status, body, ret, calls, crashed>>

\* ------------------------------------------------------------- stores

\* mockDb.findUser(authorization): the stored user with that id, or nothing.
FindUser(store, h) ==
  IF \E u \in store : u.id = h
  THEN CHOOSE u \in store : u.id = h
  ELSE NoUser

\* mockDb.createOrUpdateUser(emailAddress, {...}).
CreateOrUpdateUser(store, m) ==
  { u \in store : u.emailAddress # m }
    \cup { [id |-> UserIdOf(m), emailAddress |-> m] }

\* Faulty variant: the index leaves out the snippet.
IndexKeyNoSnippet(rec) == <<rec.userId, rec.subject>>
\* The fields of the unique index of the Email collection.
IndexKey(rec) == <<rec.userId, rec.subject, rec.snippet>>

\* Faulty variant: the index is not unique.
NoUniqueIndex(store, rec) == FALSE
\* The store's check of the unique index on an insert.
DuplicateKey(store, rec) ==
  \E i \in 1..Len(store) : IndexKey(store[i]) = IndexKey(rec)

\* The document emails.create is given for a thread.
EmailDoc(t, u) ==
  [subject |-> t.subject, snippet |-> t.snippet, fromEmail |-> t.from[1],
   ownEmail |-> u.emailAddress, userId |-> u.id]

\* thread.messages[0].from[0].email can be read.
HasSender(t) == Len(t.from) > 0

\* Faulty variant: the find has no filter.
FindAllEmails(store, owner) == SelectSeq(store, LAMBDA e : TRUE)
\* emails.find({ownEmail}).
FindEmails(store, owner) == SelectSeq(store, LAMBDA e : e.ownEmail = owner)

\* reply.find({userEmail}).
FindReplies(store, owner) == SelectSeq(store, LAMBDA x : x.userEmail = owner)

\* ------------------------------------------------------------- init
\* The users of the two mailboxes, once connected.
AllUsers == { [id |-> UserIdOf(m), emailAddress |-> m] : m \in Mailboxes }

\* The documents earlier ingests can have archived.
StoredDocs ==
  { EmailDoc(t, u) : t \in { x \in Threads : HasSender(x) }, u \in AllUsers }

\* The archives earlier runs of the server can have left: up to MaxStored
\* documents, no two with the same index key.
Archives ==
  { a \in SeqsUpTo(StoredDocs, MaxStored) :
      \A i, j \in 1..Len(a) :
        (/\ a[i].userId = a[j].userId
         /\ a[i].subject = a[j].subject
         /\ a[i].snippet = a[j].snippet) => i = j }

\* The server starts: the in-memory user store is empty, the Email
\* collection is what earlier runs left, requests have not arrived.
Init ==
  /\ users = {}
  /\ emails \in Archives
  /\ replies = <<>>
  /\ pc = [r \in Reqs |-> "idle"]
  /\ op = [r \in Reqs |-> "message"]
  /\ auth = [r \in Reqs |-> NoHeader]
  /\ user = [r \in Reqs |-> NoUser]
  /\ threads = [r \in Reqs |-> <<>>]
  /\ ins = [r \in Reqs |-> <<>>]
  /\ seen = [r \in Reqs |-> 0]
  /\ units = [r \in Reqs |-> <<>>]
  /\ status = [r \in Reqs |-> 0]
  /\ body = [r \in Reqs |-> NoBody]
  /\ ret = [r \in Reqs |-> NoBody]
  /\ calls = {}
  /\ crashed = FALSE

\* ------------------------------------------------------------- helpers

\* A promise rejected with no handler attached: node either only warns
\* (before version 15, or --unhandled-rejections=warn) or terminates the
\* process (the default since version 15). The source fixes neither.
UnhandledRejection == crashed' \in BOOLEAN

\* Faulty variant: the middleware calls next() whatever the header.
GateOpen(h, store) == "next"
\* isAuthenticated: what the middleware decides for a header.
Gate(h, store) ==
  IF h = NoHeader THEN "401"
  ELSE IF FindUser(store, h) = NoUser THEN "401"
  ELSE "next"

\* The first await of each route handler: the place it suspends at and the
\* external call it issued to get there.
FirstPc(o) ==
  CASE o = "read-emails"    -> "list"
    [] o = "message"        -> "msg"
    [] o = "file"           -> "file"
    [] o = "read-email-gpt" -> "load"
    [] o = "read-replies"   -> "read"

FirstCall(r, o) ==
  CASE o = "read-emails"    -> {<<r, "threads.list">>}
    [] o = "message"        -> {<<r, "messages.find">>}
    [] o = "file"           -> {<<r, "files.find">>}
    [] o = "read-email-gpt" -> {}
    [] o = "read-replies"   -> {}

\* threads.map(async (thread) => {...}) up to each callback's first await:
\* a thread whose sender cannot be read throws before emails.create is
\* called, every other thread has its insert issued.
IssueInserts(ts) ==
  [i \in 1..Len(ts) |-> IF HasSender(ts[i]) THEN "pending" ELSE "error"]

\* Faulty variant: the callback has no try/catch.
PromiseNoCatch(o) ==
  CASE o = "pending" -> "pending"
    [] o = "error"   -> "rejected"
    [] OTHER         -> "fulfilled"
\* The state of the promise of one map callback: the try/catch around
\* emails.create turns every failure into a fulfilled promise.
PromiseOf(o) == IF o = "pending" THEN "pending" ELSE "fulfilled"

\* Faulty variant: the handler does not await the promises.
AllNoWait(ps) == "fulfilled"
\* Promise.all over the callbacks' promises.
PromiseAll(ps) ==
  IF \E i \in DOMAIN ps : PromiseOf(ps[i]) = "rejected" THEN "rejected"
  ELSE IF \A i \in DOMAIN ps : PromiseOf(ps[i]) = "fulfilled" THEN "fulfilled"
  ELSE "pending"

\* The unit forEach starts for one found EmailRecord.
UnitOf(e) ==
  [subject |-> e.subject, snippet |-> e.snippet, st |-> "completing",
   text |-> ""]

\* The document reply.create is given.
ReplyDoc(t, u) == [body |-> t, userEmail |-> u.emailAddress]

\* ------------------------------------------------------------- actions

\* POST /nylas/exchange-mailbox-token: a mailbox is connected.
ExchangeToken(m) ==
  /\ ~crashed
  /\ users' = CreateOrUpdateUser(users, m)
  /\ UNCHANGED <<emails, replies, pc, op, auth, user, threads, ins, seen,
                 units, status, body, ret, calls, crashed>>

\* A request for a protected route arrives; requests are numbered in the
\* order of their arrival.
Arrive(r, o, h) ==
  /\ ~crashed
  /\ pc[r] = "idle"
  /\ \A q \in Reqs : q < r => pc[q] # "idle"
  /\ op' = [op EXCEPT ![r] = o]
  /\ auth' = [auth EXCEPT ![r] = h]
  /\ pc' = [pc EXCEPT ![r] = "auth"]
  /\ UNCHANGED <<users, emails, replies, user, threads, ins, seen, units,
                 status, body, ret, calls, crashed>>

\* isAuthenticated, and on next() the route handler up to its first await.
Authenticate(r) ==
  /\ ~crashed
  /\ pc[r] = "auth"
  /\ IF Gate(auth[r], users) = "401"
     THEN /\ status' = [status EXCEPT ![r] = 401]
          /\ body' = [body EXCEPT ![r] = [kind |-> "Unauthorized", data |-> <<>>]]
          /\ pc' = [pc EXCEPT ![r] = "denied"]
          /\ UNCHANGED <<user, calls>>
     ELSE /\ user' = [user EXCEPT ![r] = FindUser(users, auth[r])]
          /\ pc' = [pc EXCEPT ![r] = FirstPc(op[r])]
          /\ calls' = calls \cup FirstCall(r, op[r])
          /\ UNCHANGED <<status, body>>
  /\ UNCHANGED <<users, emails, replies, op, auth, threads, ins, seen, units,
                 ret, crashed>>

\* An awaited gateway call of a route handler rejects. No handler has a
\* try/catch around these awaits: the handler's promise rejects, express
\* ignores it, and no response is sent.
GatewayRejects(r) ==
  /\ ~crashed
  /\ pc[r] \in {"list", "msg", "file", "download"}
  /\ pc' = [pc EXCEPT ![r] = "rejected"]
  /\ UnhandledRejection
  /\ UNCHANGED <<users, emails, replies, op, auth, user, threads, ins, seen,
                 units, status, body, ret, calls>>

\* /nylas/read-emails: threads.list resolves; the map issues the inserts.
ListThreads(r, ts) ==
  /\ ~crashed
  /\ pc[r] = "list"
  /\ threads' = [threads EXCEPT ![r] = ts]
  /\ ins' = [ins EXCEPT ![r] = IssueInserts(ts)]
  /\ seen' = [seen EXCEPT ![r] = Len(emails)]
  /\ pc' = [pc EXCEPT ![r] = "insert"]
  /\ UNCHANGED <<users, emails, replies, op, auth, user, units, status, body,
                 ret, calls, crashed>>

\* The store runs one issued emails.create: it inserts the document, or
\* refuses it with a duplicate-key error (code 11000), which the callback
\* catches and logs.
Insert(r, i) ==
  /\ ~crashed
  /\ pc[r] = "insert"
  /\ i \in DOMAIN ins[r]
  /\ ins[r][i] = "pending"
  /\ LET doc == EmailDoc(threads[r][i], user[r]) IN
       IF DuplicateKey(emails, doc)
       THEN /\ ins' = [ins EXCEPT ![r][i] = "dup"]
            /\ UNCHANGED emails
       ELSE /\ ins' = [ins EXCEPT ![r][i] = "ok"]
            /\ emails' = Append(emails, doc)
  /\ UNCHANGED <<users, replies, pc, op, auth, user, threads, seen, units,
                 status, body, ret, calls, crashed>>

\* One issued emails.create fails with another error (the store is
\* unreachable, the write times out); the callback catches and logs it.
InsertFails(r, i) ==
  /\ ~crashed
  /\ pc[r] = "insert"
  /\ i \in DOMAIN ins[r]
  /\ ins[r][i] = "pending"
  /\ ins' = [ins EXCEPT ![r][i] = "error"]
  /\ UNCHANGED <<users, emails, replies, pc, op, auth, user, threads, seen,
                 units, status, body, ret, calls, crashed>>

\* await Promise.all(createEmailPromises) settles and the handler responds.
IngestRespond(r) ==
  /\ ~crashed
  /\ pc[r] = "insert"
  /\ PromiseAll(ins[r]) # "pending"
  /\ IF PromiseAll(ins[r]) = "fulfilled"
     THEN /\ status' = [status EXCEPT ![r] = 201]
          /\ body' = [body EXCEPT ![r] = [kind |-> "threads", data |-> threads[r]]]
     ELSE /\ status' = [status EXCEPT ![r] = 500]
          /\ body' = [body EXCEPT ![r] =
                        [kind |-> "Internal server error", data |-> <<>>]]
  /\ pc' = [pc EXCEPT ![r] = "returned"]
  /\ UNCHANGED <<users, emails, replies, op, auth, user, threads, ins, seen,
                 units, ret, calls, crashed>>

\* /nylas/message: messages.find resolves and the message is sent.
MessageFound(r) ==
  /\ ~crashed
  /\ pc[r] = "msg"
  /\ status' = [status EXCEPT ![r] = 200]
  /\ body' = [body EXCEPT ![r] = [kind |-> "message", data |-> <<>>]]
  /\ pc' = [pc EXCEPT ![r] = "returned"]
  /\ UNCHANGED <<users, emails, replies, op, auth, user, threads, ins, seen,
                 units, ret, calls, crashed>>

\* /nylas/file: files.find resolves and the download is started.
FileFound(r) ==
  /\ ~crashed
  /\ pc[r] = "file"
  /\ calls' = calls \cup {<<r, "file.download">>}
  /\ pc' = [pc EXCEPT ![r] = "download"]
  /\ UNCHANGED <<users, emails, replies, op, auth, user, threads, ins, seen,
                 units, status, body, ret, crashed>>

\* /nylas/file: the download resolves and the content is sent.
FileDownloaded(r) ==
  /\ ~crashed
  /\ pc[r] = "download"
  /\ status' = [status EXCEPT ![r] = 200]
  /\ body' = [body EXCEPT ![r] = [kind |-> "file", data |-> <<>>]]
  /\ pc' = [pc EXCEPT ![r] = "returned"]
  /\ UNCHANGED <<users, emails, replies, op, auth, user, threads, ins, seen,
                 units, ret, calls, crashed>>

\* /nylas/read-email-gpt: emails.find resolves; forEach starts one unit per
\* found record, each up to its createCompletion call, and the handler
\* returns true without sending anything.
LoadEmails(r) ==
  /\ ~crashed
  /\ pc[r] = "load"
  /\ LET found == FindEmails(emails, user[r].emailAddress) IN
       /\ units' = [units EXCEPT ![r] = [i \in 1..Len(found) |-> UnitOf(found[i])]]
       /\ calls' = calls \cup
                     (IF Len(found) > 0 THEN {<<r, "createCompletion">>} ELSE {})
  /\ seen' = [seen EXCEPT ![r] = Len(emails)]
  /\ ret' = [ret EXCEPT ![r] = [kind |-> "true", data |-> <<>>]]
  /\ pc' = [pc EXCEPT ![r] = "returned"]
  /\ UNCHANGED <<users, emails, replies, op, auth, user, threads, ins, status,
                 body, crashed>>

\* The completion engine answers one unit with text t; reply.create is issued.
Complete(r, i, t) ==
  /\ ~crashed
  /\ i \in DOMAIN units[r]
  /\ units[r][i].st = "completing"
  /\ units' = [units EXCEPT ![r][i].st = "writing", ![r][i].text = t]
  /\ UNCHANGED <<users, emails, replies, pc, op, auth, user, threads, ins,
                 seen, status, body, ret, calls, crashed>>

\* The store runs the reply.create of one unit.
WriteReply(r, i) ==
  /\ ~crashed
  /\ i \in DOMAIN units[r]
  /\ units[r][i].st = "writing"
  /\ replies' = Append(replies, ReplyDoc(units[r][i].text, user[r]))
  /\ units' = [units EXCEPT ![r][i].st = "done"]
  /\ UNCHANGED <<users, emails, pc, op, auth, user, threads, ins, seen,
                 status, body, ret, calls, crashed>>

\* createCompletion or reply.create of one unit rejects. The callback has
\* no try/catch and forEach drops its promise.
UnitFails(r, i) ==
  /\ ~crashed
  /\ i \in DOMAIN units[r]
  /\ units[r][i].st \in {"completing", "writing"}
  /\ units' = [units EXCEPT ![r][i].st = "failed"]
  /\ UnhandledRejection
  /\ UNCHANGED <<users, emails, replies, pc, op, auth, user, threads, ins,
                 seen, status, body, ret, calls>>

\* /nylas/read-replies: reply.find resolves; the handler returns the
\* replies to express and sends nothing.
ReadReplies(r) ==
  /\ ~crashed
  /\ pc[r] = "read"
  /\ ret' = [ret EXCEPT ![r] =
               [kind |-> "replies",
                data |-> FindReplies(replies, user[r].emailAddress)]]
  /\ pc' = [pc EXCEPT ![r] = "returned"]
  /\ UNCHANGED <<users, emails, replies, op, auth, user, threads, ins, seen,
                 units, status, body, calls, crashed>>

\* The store read of /nylas/read-email-gpt (no try/catch) or of
\* /nylas/read-replies (whose catch reads the undefined name e and throws)
\* rejects.
StoreReadFails(r) ==
  /\ ~crashed
  /\ pc[r] \in {"load", "read"}
  /\ pc' = [pc EXCEPT ![r] = "rejected"]
  /\ UnhandledRejection
  /\ UNCHANGED <<users, emails, replies, op, auth, user, threads, ins, seen,
                 units, status, body, ret, calls>>

\* ------------------------------------------------------------- specification

\* The steps in which every external call and store operation succeeds.
NextOK ==
  \/ \E m \in Mailboxes : ExchangeToken(m)
  \/ \E r \in Reqs, o \in Ops, h \in Headers : Arrive(r, o, h)
  \/ \E r \in Reqs : Authenticate(r)
  \/ \E r \in Reqs, ts \in SeqsUpTo(Threads, MaxThreads) : ListThreads(r, ts)
  \/ \E r \in Reqs : \E i \in DOMAIN ins[r] : Insert(r, i)
  \/ \E r \in Reqs : IngestRespond(r)
  \/ \E r \in Reqs : MessageFound(r)
  \/ \E r \in Reqs : FileFound(r)
  \/ \E r \in Reqs : FileDownloaded(r)
  \/ \E r \in Reqs : LoadEmails(r)
  \/ \E r \in Reqs : \E i \in DOMAIN units[r], t \in Texts : Complete(r, i, t)
  \/ \E r \in Reqs : \E i \in DOMAIN units[r] : WriteReply(r, i)
  \/ \E r \in Reqs : ReadReplies(r)

\* The steps in which a call or a store operation fails.
NextFail ==
  \/ \E r \in Reqs : GatewayRejects(r)
  \/ \E r \in Reqs : \E i \in DOMAIN ins[r] : InsertFails(r, i)
  \/ \E r \in Reqs : \E i \in DOMAIN units[r] : UnitFails(r, i)
  \/ \E r \in Reqs : StoreReadFails(r)

Next == NextOK \/ NextFail

Spec == Init /\ [][Next]_vars

\* Every external call and store operation succeeds, and each one that is
\* pending is eventually answered.
SpecOK ==
  /\ Init /\ [][NextOK]_vars
  /\ WF_vars(\E r \in Reqs : \E i \in DOMAIN units[r], t \in Texts : Complete(r, i, t))
  /\ WF_vars(\E r \in Reqs : \E i \in DOMAIN units[r] : WriteReply(r, i))

\* ------------------------------------------------------------- properties

IngestReqs == { r \in Reqs : op[r] = "read-emails" /\ pc[r] \in {"insert", "returned"} }
GptReqs == { r \in Reqs : op[r] = "read-email-gpt" /\ pc[r] = "returned" }

\* Thread t of user u has a record in store.
Archived(store, t, u) ==
  \E k \in 1..Len(store) :
    /\ store[k].userId = u.id
    /\ store[k].subject = t.subject
    /\ store[k].snippet = t.snippet

\* Threads t and x have the same (subject, snippet).
SameText(t, x) == t.subject = x.subject /\ t.snippet = x.snippet

\* C1: no two EmailRecords share (userId, subject, snippet), whatever the
\* interleaving of the insert attempts of the ingest requests and whatever
\* the batches hold.
C1_UniqueRecords ==
  \A i, j \in 1..Len(emails) :
    (/\ emails[i].userId = emails[j].userId
     /\ emails[i].subject = emails[j].subject
     /\ emails[i].snippet = emails[j].snippet) => i = j

\* Two ingest requests of one user are both in flight; one holds the same
\* (subject, snippet) twice, and of the three attempts on it one inserted
\* and two were refused.
C1_Witness ==
  \E r, q \in IngestReqs :
    /\ r # q /\ user[r] = user[q]
    /\ pc[r] = "insert" /\ pc[q] = "insert"
    /\ \E i, j \in DOMAIN ins[r], k \in DOMAIN ins[q] :
         /\ i # j
         /\ SameText(threads[r][i], threads[r][j])
         /\ SameText(threads[r][i], threads[q][k])
         /\ ins[r][i] = "ok" /\ ins[r][j] = "dup" /\ ins[q][k] = "dup"

\* C2: a request to a protected route whose authorization header is missing
\* or is the id of no stored user is answered 401 by the middleware and its
\* route handler never runs: it issues no gateway or completion call, starts
\* no insert and no reply unit, and returns nothing.
C2_AuthGate ==
  \A r \in Reqs :
    (/\ pc[r] \notin {"idle", "auth"}
     /\ (auth[r] = NoHeader \/ ~(\E u \in users : u.id = auth[r])))
    => /\ pc[r] = "denied"
       /\ status[r] = 401
       /\ body[r].kind = "Unauthorized"
       /\ ~(\E c \in calls : c[1] = r)
       /\ threads[r] = <<>> /\ ins[r] = <<>> /\ units[r] = <<>>
       /\ ret[r] = NoBody

\* One request without a header and one with an unknown id were both
\* refused, the second on the reply listing.
C2_Witness ==
  \E r, q \in Reqs :
    /\ pc[r] = "denied" /\ auth[r] = NoHeader
    /\ pc[q] = "denied" /\ auth[q] # NoHeader /\ op[q] = "read-replies"
    /\ Len(emails) > 0

\* C3: when an ingest request has responded, the response is 201 with the
\* full list of fetched threads, every thread of the batch had its insert
\* attempted and settled, and every thread whose own insert did not fail
\* with a non-duplicate error is archived, also when a sibling failed.
C3_Isolation ==
  \A r \in Reqs :
    (op[r] = "read-emails" /\ pc[r] = "returned")
    => /\ status[r] = 201
       /\ body[r] = [kind |-> "threads", data |-> threads[r]]
       /\ DOMAIN ins[r] = DOMAIN threads[r]
       /\ \A i \in DOMAIN ins[r] :
            /\ ins[r][i] \in {"ok", "dup", "error"}
            /\ ins[r][i] # "error" => Archived(emails, threads[r][i], user[r])

\* One ingest responded after a thread without a sender threw while its
\* sibling was inserted, another after a store error on one thread while
\* its sibling was inserted.
C3_Witness ==
  \E r, q \in Reqs :
    /\ op[r] = "read-emails" /\ pc[r] = "returned"
    /\ op[q] = "read-emails" /\ pc[q] = "returned"
    /\ \E i, j \in DOMAIN ins[r] :
         /\ ~HasSender(threads[r][i]) /\ ins[r][i] = "error"
         /\ ins[r][j] = "ok"
    /\ \E i, j \in DOMAIN ins[q] :
         /\ HasSender(threads[q][i]) /\ ins[q][i] = "error"
         /\ ins[q][j] = "ok"

\* The records the store held when request r's batch was listed.
SeenBy(r) == SubSeq(emails, 1, seen[r])

\* What holds of the attempts of every ingest request in every state.
C4_Attempts ==
  /\ \A r \in IngestReqs : \A i \in DOMAIN ins[r] :
       /\ ins[r][i] = "ok" =>
            /\ ~Archived(SeenBy(r), threads[r][i], user[r])
            /\ \A j \in DOMAIN ins[r] :
                 (j # i /\ SameText(threads[r][i], threads[r][j]))
                   => ins[r][j] # "ok"
       /\ ins[r][i] = "dup" => Archived(emails, threads[r][i], user[r])
  /\ \A r \in IngestReqs :
       pc[r] = "returned" =>
         /\ status[r] = 201
         /\ body[r] = [kind |-> "threads", data |-> threads[r]]

\* A step that changes the archive appends one record, for an attempt that
\* was pending and whose thread was not archived for its user.
C4_Growth ==
  emails' # emails =>
    \E r \in Reqs : \E i \in DOMAIN ins[r] :
      /\ ins[r][i] = "pending" /\ ins'[r][i] = "ok"
      /\ ~Archived(emails, threads[r][i], user[r])
      /\ Len(emails') = Len(emails) + 1
      /\ SubSeq(emails', 1, Len(emails)) = emails
      /\ Archived(emails', threads[r][i], user[r])

C9_Barrier ==
  \A r \in Reqs :
    op[r] = "read-emails" =>
      /\ pc[r] \in {"insert", "returned"} => DOMAIN ins[r] = DOMAIN threads[r]
      /\ status[r] # 0 => \A i \in DOMAIN ins[r] : ins[r][i] # "pending"
      /\ pc[r] = "returned" => status[r] # 0

\* An ingest over two threads with a sender responded after both settled.
C9_Witness ==
  \E r \in Reqs :
    /\ op[r] = "read-emails" /\ status[r] = 201
    /\ Len(threads[r]) = 2
    /\ \A i \in DOMAIN ins[r] : HasSender(threads[r][i]) /\ ins[r][i] # "pending"

\* The reply a unit writes once the completion engine gave it its text.
Expected(r, i) == [body |-> units[r][i].text, userEmail |-> user[r].emailAddress]

AllUnits == UNION { { <<r, i>> : i \in DOMAIN units[r] } : r \in Reqs }

\* The units of a generate-replies request are the records archived under
\* the account's email when the request read the archive, one unit each.
C5_Units ==
  \A r \in GptReqs :
    LET mine == SelectSeq(SeenBy(r), LAMBDA e : e.ownEmail = user[r].emailAddress) IN
      /\ Len(units[r]) = Len(mine)
      /\ \A i \in DOMAIN units[r] :
           units[r][i].subject = mine[i].subject /\ units[r][i].snippet = mine[i].snippet

\* The Reply collection holds one record for every finished unit, with the
\* unit's text and its account's email, and nothing else.
C5_Written ==
  \A d \in { replies[k] : k \in DOMAIN replies } \cup { Expected(x[1], x[2]) : x \in AllUnits } :
    Cardinality({ k \in DOMAIN replies : replies[k] = d })
      = Cardinality({ x \in AllUnits :
                        units[x[1]][x[2]].st = "done" /\ Expected(x[1], x[2]) = d })

\* C5: when every completion call and reply write succeeds, a
\* generate-replies invocation eventually has added exactly one ReplyRecord
\* for each EmailRecord archived under the account's email when it was
\* invoked, with userEmail the account's email and body the completion text.
C5_OnePerRecord ==
  /\ [] C5_Units
  /\ [] C5_Written
  /\ \A r \in Reqs :
       (op[r] = "read-email-gpt" /\ pc[r] = "returned")
         ~> (\A i \in DOMAIN units[r] : units[r][i].st = "done")

\* An invocation finished its units while the archive held a record of
\* another account and took a further record after the invocation.
C5_Witness ==
  \E r \in GptReqs :
    /\ Len(units[r]) > 0
    /\ \A i \in DOMAIN units[r] : units[r][i].st = "done"
    /\ \E k \in 1..seen[r] : emails[k].ownEmail # user[r].emailAddress
    /\ Len(emails) > seen[r]
    /\ \E k \in DOMAIN replies :
         replies[k] = [body |-> "Draft reply", userEmail |-> user[r].emailAddress]

\* C6: a reply listing whose store read succeeded has sent the caller a
\* response holding the ReplyRecords the read returned.
C6_ListingSent ==
  \A r \in Reqs :
    (op[r] = "read-replies" /\ pc[r] = "returned" /\ Len(ret[r].data) > 0)
    => status[r] = 200 /\ body[r].data = ret[r].data

\* C7: an ingest request whose thread listing rejected is answered 500.
C7_Gateway500 ==
  \A r \in Reqs :
    (op[r] = "read-emails" /\ pc[r] = "rejected") => status[r] = 500

\* C8: a generate-replies request whose handler has returned has sent its
\* response, and no unit of it has finished while the response was unsent.
C8_Responds ==
  \A r \in Reqs :
    op[r] = "read-email-gpt" =>
      /\ pc[r] = "returned" => status[r] # 0
      /\ (\E i \in DOMAIN units[r] : units[r][i].st \in {"done", "failed"})
           => status[r] # 0

\* C10: the failure of one unit of a generate-replies invocation never
\* leaves the unit of another record unfinished for good.
C10_SiblingsFinish ==
  \A r \in Reqs : \A i, j \in DOMAIN units[r] :
    (i # j /\ units[r][i].st = "failed" /\ crashed)
      => units[r][j].st \in {"done", "failed"}

====
